---- MODULE Spec2Model ----
(***************************************************************************)
(* Model of generic-bimap: BiMap<LMap, RMap> over two hash-backed maps     *)
(* whose keys and values are Ref<T> handles (Rc<T>) shared between the two *)
(* maps.  Allocations carry their strong count; a handle is the identity   *)
(* of the allocation it points to.                                         *)
(***************************************************************************)
EXTENDS Integers, FiniteSets, Sequences, TLC

MaxLeft == 2
MaxRight == 2
MaxAlloc == 2

LVals == 1..MaxLeft
RVals == {10 + i : i \in 1..MaxRight}

\* An allocation is named by the side of the bimap whose type it holds and
\* an index; Rc::ptr_eq is equality of these names.
Allocs == {"L", "R"} \X (1..MaxAlloc)

VARIABLES lmap, rmap, heap, res, panicked

vars == <<lmap, rmap, heap, res, panicked>>

None == [tag |-> "None"]
Some(x) == [tag |-> "Some", val |-> x]
Unit == [tag |-> "Unit"]
Panic(msg) == [tag |-> "Panic", msg |-> msg]

EmptyMap == [x \in {} |-> 0]

\* BiMap { lmap, rmap } together with the Rc allocations its handles own.
BiMap(l, r, h) == [lmap |-> l, rmap |-> r, heap |-> h]

\* BiMap::new
New == BiMap(EmptyMap, EmptyMap, EmptyMap)

\* Rc::new followed by one Rc::clone: a value owned by two handles.
RcNew2(h, a, v) == [x \in DOMAIN h \cup {a} |-> IF x = a THEN [val |-> v, rc |-> 2] ELSE h[x]]

\* Dropping one Ref handle: the strong count falls, the allocation is freed at 0.
DropRef(h, a) ==
    IF h[a].rc = 1 THEN [x \in DOMAIN h \ {a} |-> h[x]]
    ELSE [h EXCEPT ![a].rc = @ - 1]

\* Deref for Ref<T>
Deref(h, a) == h[a].val

\* HashMap::len
HashMapLen(map) == Cardinality(DOMAIN map)

\* HashMap::insert written as entry(key).or_insert(val): an equal key keeps
\* its old value and both new handles are dropped.
HashMapInsertKeepOld(map, h, kh, vh) ==
    LET k == Deref(h, kh) IN
    IF k \in DOMAIN map
    THEN [map |-> map, heap |-> DropRef(DropRef(h, kh), vh)]
    ELSE [map |-> [x \in DOMAIN map \cup {k} |->
                      IF x = k THEN [k |-> kh, v |-> vh] ELSE map[x]],
          heap |-> h]

\* HashMap::insert: keys compare by value; on an equal key the stored key
\* handle is kept, the value is replaced, and the new key handle and the old
\* value handle are dropped.
HashMapInsert(map, h, kh, vh) ==
    LET k == Deref(h, kh) IN
    IF k \in DOMAIN map
    THEN [map |-> [map EXCEPT ![k].v = vh],
          heap |-> DropRef(DropRef(h, kh), map[k].v)]
    ELSE [map |-> [x \in DOMAIN map \cup {k} |->
                      IF x = k THEN [k |-> kh, v |-> vh] ELSE map[x]],
          heap |-> h]

\* HashMap::get
HashMapGet(map, q) == IF q \in DOMAIN map THEN Some(map[q].v) ELSE None

\* HashMap::contains
HashMapContains(map, q) == q \in DOMAIN map

\* HashMap::remove (remove_entry): hands both stored handles to the caller.
HashMapRemove(map, q) ==
    IF q \in DOMAIN map
    THEN [map |-> [x \in DOMAIN map \ {q} |-> map[x]],
          out |-> Some(<<map[q].k, map[q].v>>)]
    ELSE [map |-> map, out |-> None]

\* Ref::join asserting a strong count of 1 instead of 2.
JoinCountOne(h, x, y) ==
    IF x = y /\ h[x].rc = 1
    THEN [ok |-> TRUE, val |-> h[x].val, heap |-> [a \in DOMAIN h \ {x} |-> h[a]]]
    ELSE [ok |-> FALSE, val |-> 0, heap |-> DropRef(DropRef(h, x), y)]

\* Ref::join: asserts both handles are the only two owners of one
\* allocation; on success the allocation is consumed into its value, on
\* failure the unwinding drops both handles.
Join(h, x, y) ==
    IF x = y /\ h[x].rc = 2
    THEN [ok |-> TRUE, val |-> h[x].val, heap |-> [a \in DOMAIN h \ {x} |-> h[a]]]
    ELSE [ok |-> FALSE, val |-> 0, heap |-> DropRef(DropRef(h, x), y)]

\* BiMap::get_left
GetLeft(bm, q) ==
    LET g == HashMapGet(bm.lmap, q) IN
    IF g = None THEN None ELSE Some(Deref(bm.heap, g.val))

\* BiMap::get_right
GetRight(bm, q) ==
    LET g == HashMapGet(bm.rmap, q) IN
    IF g = None THEN None ELSE Some(Deref(bm.heap, g.val))

\* BiMap::contains_left
ContainsLeft(bm, q) == HashMapContains(bm.lmap, q)

\* BiMap::contains_right
ContainsRight(bm, q) == HashMapContains(bm.rmap, q)

\* remove_left that forgets the right-keyed map: the left entry is taken out
\* and its values returned, the mirrored entry stays.
RemoveLeftNoMirror(bm, q) ==
    LET first == HashMapRemove(bm.lmap, q) IN
    IF first.out = None THEN [bm |-> bm, out |-> None]
    ELSE
      LET l0 == first.out.val[1]
          r0 == first.out.val[2]
      IN [bm |-> BiMap(first.map, bm.rmap, DropRef(DropRef(bm.heap, l0), r0)),
          out |-> Some(<<Deref(bm.heap, l0), Deref(bm.heap, r0)>>)]

\* remove_left with expect() on the first removal too.
RemoveLeftExpectFirst(bm, q) ==
    LET first == HashMapRemove(bm.lmap, q) IN
    IF first.out = None THEN [bm |-> bm, out |-> Panic("bimap invariant")]
    ELSE
      LET l0 == first.out.val[1]
          r0 == first.out.val[2]
          second == HashMapRemove(bm.rmap, Deref(bm.heap, r0))
      IN
      IF second.out = None
      THEN [bm |-> BiMap(first.map, second.map, DropRef(DropRef(bm.heap, l0), r0)),
            out |-> Panic("bimap invariant")]
      ELSE
        LET r1 == second.out.val[1]
            l1 == second.out.val[2]
            jl == Join(bm.heap, l0, l1)
        IN
        IF ~jl.ok
        THEN [bm |-> BiMap(first.map, second.map, DropRef(DropRef(jl.heap, r0), r1)),
              out |-> Panic("assertion failed")]
        ELSE
          LET jr == Join(jl.heap, r0, r1) IN
          IF ~jr.ok
          THEN [bm |-> BiMap(first.map, second.map, jr.heap),
                out |-> Panic("assertion failed")]
          ELSE [bm |-> BiMap(first.map, second.map, jr.heap),
                out |-> Some(<<jl.val, jr.val>>)]

\* remove_left with `?` on the second removal: a missing mirrored entry is
\* reported as None.
RemoveLeftLenient(bm, q) ==
    LET first == HashMapRemove(bm.lmap, q) IN
    IF first.out = None THEN [bm |-> bm, out |-> None]
    ELSE
      LET l0 == first.out.val[1]
          r0 == first.out.val[2]
          second == HashMapRemove(bm.rmap, Deref(bm.heap, r0))
      IN
      IF second.out = None
      THEN [bm |-> BiMap(first.map, second.map, DropRef(DropRef(bm.heap, l0), r0)),
            out |-> None]
      ELSE
        LET r1 == second.out.val[1]
            l1 == second.out.val[2]
            jl == Join(bm.heap, l0, l1)
        IN
        IF ~jl.ok
        THEN [bm |-> BiMap(first.map, second.map, DropRef(DropRef(jl.heap, r0), r1)),
              out |-> Panic("assertion failed")]
        ELSE
          LET jr == Join(jl.heap, r0, r1) IN
          IF ~jr.ok
          THEN [bm |-> BiMap(first.map, second.map, jr.heap),
                out |-> Panic("assertion failed")]
          ELSE [bm |-> BiMap(first.map, second.map, jr.heap),
                out |-> Some(<<jl.val, jr.val>>)]

\* BiMap::remove_left
RemoveLeft(bm, q) ==
    LET first == HashMapRemove(bm.lmap, q) IN
    IF first.out = None THEN [bm |-> bm, out |-> None]
    ELSE
      LET l0 == first.out.val[1]
          r0 == first.out.val[2]
          second == HashMapRemove(bm.rmap, Deref(bm.heap, r0))
      IN
      IF second.out = None
      THEN [bm |-> BiMap(first.map, second.map, DropRef(DropRef(bm.heap, l0), r0)),
            out |-> Panic("bimap invariant")]
      ELSE
        LET r1 == second.out.val[1]
            l1 == second.out.val[2]
            jl == Join(bm.heap, l0, l1)
        IN
        IF ~jl.ok
        THEN [bm |-> BiMap(first.map, second.map, DropRef(DropRef(jl.heap, r0), r1)),
              out |-> Panic("assertion failed")]
        ELSE
          LET jr == Join(jl.heap, r0, r1) IN
          IF ~jr.ok
          THEN [bm |-> BiMap(first.map, second.map, jr.heap),
                out |-> Panic("assertion failed")]
          ELSE [bm |-> BiMap(first.map, second.map, jr.heap),
                out |-> Some(<<jl.val, jr.val>>)]

\* remove_right that forgets the left-keyed map.
RemoveRightNoMirror(bm, q) ==
    LET first == HashMapRemove(bm.rmap, q) IN
    IF first.out = None THEN [bm |-> bm, out |-> None]
    ELSE
      LET r0 == first.out.val[1]
          l0 == first.out.val[2]
      IN [bm |-> BiMap(bm.lmap, first.map, DropRef(DropRef(bm.heap, r0), l0)),
          out |-> Some(<<Deref(bm.heap, l0), Deref(bm.heap, r0)>>)]

\* remove_right with `?` on the second removal: a missing mirrored entry is
\* reported as None.
RemoveRightLenient(bm, q) ==
    LET first == HashMapRemove(bm.rmap, q) IN
    IF first.out = None THEN [bm |-> bm, out |-> None]
    ELSE
      LET r0 == first.out.val[1]
          l0 == first.out.val[2]
          second == HashMapRemove(bm.lmap, Deref(bm.heap, l0))
      IN
      IF second.out = None
      THEN [bm |-> BiMap(second.map, first.map, DropRef(DropRef(bm.heap, r0), l0)),
            out |-> None]
      ELSE
        LET l1 == second.out.val[1]
            r1 == second.out.val[2]
            jl == Join(bm.heap, l0, l1)
        IN
        IF ~jl.ok
        THEN [bm |-> BiMap(second.map, first.map, DropRef(DropRef(jl.heap, r0), r1)),
              out |-> Panic("assertion failed")]
        ELSE
          LET jr == Join(jl.heap, r0, r1) IN
          IF ~jr.ok
          THEN [bm |-> BiMap(second.map, first.map, jr.heap),
                out |-> Panic("assertion failed")]
          ELSE [bm |-> BiMap(second.map, first.map, jr.heap),
                out |-> Some(<<jl.val, jr.val>>)]

\* BiMap::remove_right
RemoveRight(bm, q) ==
    LET first == HashMapRemove(bm.rmap, q) IN
    IF first.out = None THEN [bm |-> bm, out |-> None]
    ELSE
      LET r0 == first.out.val[1]
          l0 == first.out.val[2]
          second == HashMapRemove(bm.lmap, Deref(bm.heap, l0))
      IN
      IF second.out = None
      THEN [bm |-> BiMap(second.map, first.map, DropRef(DropRef(bm.heap, r0), l0)),
            out |-> Panic("bimap invariant")]
      ELSE
        LET l1 == second.out.val[1]
            r1 == second.out.val[2]
            jl == Join(bm.heap, l0, l1)
        IN
        IF ~jl.ok
        THEN [bm |-> BiMap(second.map, first.map, DropRef(DropRef(jl.heap, r0), r1)),
              out |-> Panic("assertion failed")]
        ELSE
          LET jr == Join(jl.heap, r0, r1) IN
          IF ~jr.ok
          THEN [bm |-> BiMap(second.map, first.map, jr.heap),
                out |-> Panic("assertion failed")]
          ELSE [bm |-> BiMap(second.map, first.map, jr.heap),
                out |-> Some(<<jl.val, jr.val>>)]

\* Indices whose two allocation names are both free.
FreeIdx(h) == {n \in 1..MaxAlloc : <<"L", n>> \notin DOMAIN h /\ <<"R", n>> \notin DOMAIN h}

MinOf(S) == CHOOSE n \in S : \A m \in S : n <= m

\* Insertion of a pair: each value is wrapped once and shared by two handles,
\* one threaded into each map in swapped key/value roles through
\* MapBase::insert.
Insert(bm, l, r) ==
    LET n == MinOf(FreeIdx(bm.heap))
        al == <<"L", n>>
        ar == <<"R", n>>
        h0 == RcNew2(RcNew2(bm.heap, al, l), ar, r)
        i1 == HashMapInsert(bm.lmap, h0, al, ar)
        i2 == HashMapInsert(bm.rmap, i1.heap, ar, al)
    IN [bm |-> BiMap(i1.map, i2.map, i2.heap), out |-> Unit]

Cur == BiMap(lmap, rmap, heap)

Init ==
    /\ lmap = New.lmap
    /\ rmap = New.rmap
    /\ heap = New.heap
    /\ res = [op |-> "new", arg |-> <<>>, out |-> Unit]
    /\ panicked = FALSE

\* Leaves the structure in the state o.bm and reports o.out; a panic ends
\* the thread that owns the structure.
Apply(op, arg, o) ==
    /\ lmap' = o.bm.lmap
    /\ rmap' = o.bm.rmap
    /\ heap' = o.bm.heap
    /\ res' = [op |-> op, arg |-> arg, out |-> o.out]
    /\ panicked' = (o.out.tag = "Panic")

DoInsert ==
    /\ ~panicked
    /\ FreeIdx(heap) # {}
    /\ \E l \in LVals, r \in RVals : Apply("insert", <<l, r>>, Insert(Cur, l, r))

DoGetLeft ==
    /\ ~panicked
    /\ \E l \in LVals : Apply("get_left", <<l>>, [bm |-> Cur, out |-> GetLeft(Cur, l)])

DoGetRight ==
    /\ ~panicked
    /\ \E r \in RVals : Apply("get_right", <<r>>, [bm |-> Cur, out |-> GetRight(Cur, r)])

DoContainsLeft ==
    /\ ~panicked
    /\ \E l \in LVals :
         Apply("contains_left", <<l>>, [bm |-> Cur, out |-> Some(ContainsLeft(Cur, l))])

DoContainsRight ==
    /\ ~panicked
    /\ \E r \in RVals :
         Apply("contains_right", <<r>>, [bm |-> Cur, out |-> Some(ContainsRight(Cur, r))])

DoRemoveLeft ==
    /\ ~panicked
    /\ \E l \in LVals : Apply("remove_left", <<l>>, RemoveLeft(Cur, l))

DoRemoveRight ==
    /\ ~panicked
    /\ \E r \in RVals : Apply("remove_right", <<r>>, RemoveRight(Cur, r))

Next ==
    \/ DoInsert
    \/ DoGetLeft
    \/ DoGetRight
    \/ DoContainsLeft
    \/ DoContainsRight
    \/ DoRemoveLeft
    \/ DoRemoveRight

Spec == Init /\ [][Next]_vars

\* MapExt::remove called on the left-keyed map alone (in-crate access to the
\* private field); the returned handles are dropped.
LmapRemove(bm, q) ==
    LET rm == HashMapRemove(bm.lmap, q) IN
    IF rm.out = None THEN [bm |-> bm, out |-> None]
    ELSE [bm |-> BiMap(rm.map, bm.rmap,
                       DropRef(DropRef(bm.heap, rm.out.val[1]), rm.out.val[2])),
          out |-> Unit]

\* MapExt::remove called on the right-keyed map alone.
RmapRemove(bm, q) ==
    LET rm == HashMapRemove(bm.rmap, q) IN
    IF rm.out = None THEN [bm |-> bm, out |-> None]
    ELSE [bm |-> BiMap(bm.lmap, rm.map,
                       DropRef(DropRef(bm.heap, rm.out.val[1]), rm.out.val[2])),
          out |-> Unit]

DoLmapRemove ==
    /\ ~panicked
    /\ \E l \in LVals : Apply("lmap.remove", <<l>>, LmapRemove(Cur, l))

DoRmapRemove ==
    /\ ~panicked
    /\ \E r \in RVals : Apply("rmap.remove", <<r>>, RmapRemove(Cur, r))

NextBroken ==
    \/ DoInsert
    \/ DoRemoveLeft
    \/ DoRemoveRight
    \/ DoLmapRemove
    \/ DoRmapRemove

\* The bimap driven through its mutating operations and, additionally,
\* through out-of-band removals on a single backing map.
SpecBroken == Init /\ [][NextBroken]_vars


TypeOK ==
    /\ DOMAIN lmap \subseteq LVals
    /\ DOMAIN rmap \subseteq RVals
    /\ DOMAIN heap \subseteq Allocs
    /\ panicked \in BOOLEAN

\* Every handle stored in a map points to a live allocation.
HandlesLive ==
    /\ \A k \in DOMAIN lmap : lmap[k].k \in DOMAIN heap /\ lmap[k].v \in DOMAIN heap
    /\ \A k \in DOMAIN rmap : rmap[k].k \in DOMAIN heap /\ rmap[k].v \in DOMAIN heap

\* The bimap consistency invariant of a structure bm: every left entry has
\* its mirrored right entry, built from the same two allocations, each owned
\* by exactly the two maps.
Consistent(bm) ==
    /\ \A k \in DOMAIN bm.lmap :
         LET v == Deref(bm.heap, bm.lmap[k].v) IN
         /\ v \in DOMAIN bm.rmap
         /\ Deref(bm.heap, bm.rmap[v].v) = k
         /\ bm.lmap[k].k = bm.rmap[v].v
         /\ bm.lmap[k].v = bm.rmap[v].k
         /\ bm.heap[bm.lmap[k].k].rc = 2
         /\ bm.heap[bm.lmap[k].v].rc = 2
    /\ \A v \in DOMAIN bm.rmap : Deref(bm.heap, bm.rmap[v].v) \in DOMAIN bm.lmap

C4_RoundTrip ==
    [][\A l \in LVals, r \in RVals :
         (/\ res.op = "insert" /\ res.arg = <<l, r>>
          /\ Cur = Insert(New, l, r).bm
          /\ res'.op = "remove_left" /\ res'.arg = <<l>>)
         => (/\ res'.out = Some(<<l, r>>)
             /\ ~panicked'
             /\ HashMapLen(lmap') = 0
             /\ HashMapLen(rmap') = 0
             /\ Cur' = New)]_vars

C4_Witness ==
    /\ res.op = "remove_left"
    /\ res.out.tag = "Some"
    /\ Cur = New

\* C5: in a consistent bimap holding (l, r), remove_left(l) returns
\* Some((l, r)); afterwards neither l nor r is contained, each map is shorter
\* by exactly one, and every other pair is still mapped in both directions.
C5_RemoveFrame ==
    [][\A l \in LVals :
         (/\ ~panicked /\ Consistent(Cur)
          /\ l \in DOMAIN lmap
          /\ res'.op = "remove_left" /\ res'.arg = <<l>>)
         => LET r == Deref(heap, lmap[l].v) IN
            /\ res'.out = Some(<<l, r>>)
            /\ ~ContainsLeft(Cur', l)
            /\ ~ContainsRight(Cur', r)
            /\ HashMapLen(lmap') = HashMapLen(lmap) - 1
            /\ HashMapLen(rmap') = HashMapLen(rmap) - 1
            /\ \A l2 \in DOMAIN lmap \ {l} :
                 LET r2 == Deref(heap, lmap[l2].v) IN
                 /\ GetLeft(Cur', l2) = Some(r2)
                 /\ GetRight(Cur', r2) = Some(l2)
                 /\ lmap'[l2] = lmap[l2]
                 /\ rmap'[r2] = rmap[r2]]_vars

C5_Witness ==
    /\ res.op = "remove_left"
    /\ res.out.tag = "Some"
    /\ HashMapLen(lmap) >= 1
    /\ Consistent(Cur)

\* C6: for a key absent from the left-keyed map, get_left returns None,
\* contains_left returns false and remove_left returns None, without a panic
\* and without changing either map; likewise on the right.
C6_Absence ==
    [][/\ (res'.op \in {"get_left", "contains_left", "remove_left"}
           /\ res'.arg[1] \notin DOMAIN lmap)
          => (/\ res'.out = (IF res'.op = "contains_left" THEN Some(FALSE) ELSE None)
              /\ ~panicked'
              /\ Cur' = Cur)
       /\ (res'.op \in {"get_right", "contains_right", "remove_right"}
           /\ res'.arg[1] \notin DOMAIN rmap)
          => (/\ res'.out = (IF res'.op = "contains_right" THEN Some(FALSE) ELSE None)
              /\ ~panicked'
              /\ Cur' = Cur)]_vars

C6_Witness ==
    /\ res.op = "remove_left"
    /\ res.out = None
    /\ res.arg[1] \notin DOMAIN lmap
    /\ lmap # EmptyMap
    /\ ~panicked

\* C7: when the left-keyed map holds l -> r and the right-keyed map has no
\* entry for r, remove_left(l) panics; it returns neither None nor Some.
\* Symmetrically for remove_right when the left counterpart is missing.
C7_FatalPath ==
    [][/\ \A l \in DOMAIN lmap :
            (/\ Deref(heap, lmap[l].v) \notin DOMAIN rmap
             /\ res'.op = "remove_left" /\ res'.arg = <<l>>)
            => (res'.out.tag = "Panic" /\ panicked')
       /\ \A r \in DOMAIN rmap :
            (/\ Deref(heap, rmap[r].v) \notin DOMAIN lmap
             /\ res'.op = "remove_right" /\ res'.arg = <<r>>)
            => (res'.out.tag = "Panic" /\ panicked')]_vars

C7_Witness ==
    /\ panicked
    /\ res.op = "remove_left"
    /\ res.out = Panic("bimap invariant")
    /\ rmap # EmptyMap

\* Left/right relabelling of an allocation, a map, a heap, a bimap, a result.
MirrorAlloc(a) == <<IF a[1] = "L" THEN "R" ELSE "L", a[2]>>

MirrorMap(m) == [x \in DOMAIN m |-> [k |-> MirrorAlloc(m[x].k), v |-> MirrorAlloc(m[x].v)]]

MirrorHeap(h) == [a \in {MirrorAlloc(x) : x \in DOMAIN h} |-> h[MirrorAlloc(a)]]

Mirror(bm) == BiMap(MirrorMap(bm.rmap), MirrorMap(bm.lmap), MirrorHeap(bm.heap))

MirrorOut(o) == IF o.tag = "Some" THEN Some(<<o.val[2], o.val[1]>>) ELSE o

\* C8: each step on the bimap and the relabelled step on the mirrored bimap
\* give mirrored results (the same pair, None, or a panic) and mirrored
\* states.
C8_Symmetry ==
    [][/\ res'.op = "remove_left" =>
            LET m == RemoveRight(Mirror(Cur), res'.arg[1]) IN
            m.out = MirrorOut(res'.out) /\ m.bm = Mirror(Cur')
       /\ res'.op = "remove_right" =>
            LET m == RemoveLeft(Mirror(Cur), res'.arg[1]) IN
            m.out = MirrorOut(res'.out) /\ m.bm = Mirror(Cur')
       /\ res'.op = "get_left" => GetRight(Mirror(Cur), res'.arg[1]) = res'.out
       /\ res'.op = "get_right" => GetLeft(Mirror(Cur), res'.arg[1]) = res'.out
       /\ res'.op = "contains_left" =>
            Some(ContainsRight(Mirror(Cur), res'.arg[1])) = res'.out
       /\ res'.op = "contains_right" =>
            Some(ContainsLeft(Mirror(Cur), res'.arg[1])) = res'.out
       /\ res'.op = "insert" =>
            Insert(Mirror(Cur), res'.arg[2], res'.arg[1]).bm = Mirror(Cur')]_vars

C8_Witness ==
    /\ panicked
    /\ res.op = "remove_right"
    /\ res.out = Panic("assertion failed")
    /\ lmap # EmptyMap

\* C9: a remove_left or remove_right that leaves the structure usable has
\* either changed nothing or removed the entry together with its mirrored
\* entry; an entry removed from one map only is never left observable.
C9_Atomic ==
    [][/\ (res'.op = "remove_left" /\ ~panicked') =>
            \/ Cur' = Cur /\ res'.out = None
            \/ /\ res'.out.tag = "Some"
               /\ DOMAIN lmap' = DOMAIN lmap \ {res'.out.val[1]}
               /\ DOMAIN rmap' = DOMAIN rmap \ {res'.out.val[2]}
               /\ res'.out.val[1] \in DOMAIN lmap
               /\ res'.out.val[2] \in DOMAIN rmap
       /\ (res'.op = "remove_right" /\ ~panicked') =>
            \/ Cur' = Cur /\ res'.out = None
            \/ /\ res'.out.tag = "Some"
               /\ DOMAIN lmap' = DOMAIN lmap \ {res'.out.val[1]}
               /\ DOMAIN rmap' = DOMAIN rmap \ {res'.out.val[2]}
               /\ res'.out.val[1] \in DOMAIN lmap
               /\ res'.out.val[2] \in DOMAIN rmap]_vars

C9_Witness ==
    /\ ~panicked
    /\ res.op = "remove_right"
    /\ res.out.tag = "Some"
    /\ rmap # EmptyMap

\* What HashMap::insert(key, val) must do to one map: a new key adds one
\* entry, an equal key keeps the length and loses the old value handle; in
\* both cases get(key) is val and the other entries are untouched.
LastWriteWins(old, new, key, val) ==
    /\ HashMapGet(new, key) = Some(val)
    /\ key \notin DOMAIN old => HashMapLen(new) = HashMapLen(old) + 1
    /\ key \in DOMAIN old =>
         /\ HashMapLen(new) = HashMapLen(old)
         /\ \A x \in DOMAIN new : new[x].v # old[key].v
    /\ \A x \in DOMAIN old \ {key} : x \in DOMAIN new /\ new[x] = old[x]

\* C10: the hash-backed map's insert is last-write-wins, on the left-keyed
\* and on the right-keyed map alike.
C10_LastWriteWins ==
    [][res'.op = "insert" =>
         LET n == MinOf(FreeIdx(heap)) IN
         /\ LastWriteWins(lmap, lmap', res'.arg[1], <<"R", n>>)
         /\ LastWriteWins(rmap, rmap', res'.arg[2], <<"L", n>>)
         /\ Deref(heap', <<"R", n>>) = res'.arg[2]
         /\ Deref(heap', <<"L", n>>) = res'.arg[1]]_vars

C10_Witness ==
    /\ res.op = "insert"
    /\ lmap[res.arg[1]].k # rmap[res.arg[2]].v
    /\ rmap[res.arg[2]].k # lmap[res.arg[1]].v
====
